---- MODULE Spec2Model ----
(***************************************************************************)
(* Model of packager/signer/signer.go: the request handler Signer.ServeHTTP *)
(* with consumeAndSign, serveSignedExchange and the proxy fallbacks.  One   *)
(* behaviour is one request, stepped through the handler's code blocks.     *)
(***************************************************************************)
EXTENDS Integers, Sequences, FiniteSets, TLC

(***************************************************************************)
(* Bounds of the model.                                                     *)
(***************************************************************************)
\* Largest number of distinct header names in an upstream response.
MaxHeaders == 2
\* Largest number of values an upstream header may carry.
MaxValues == 2
MaxLexemes == 5
MaxPreloads == 2

(***************************************************************************)
(* Program constants.                                                       *)
(***************************************************************************)
\* signer.go:506  const maxSignableBodyLength = 4 * 1 << 20
maxSignableBodyLength == 4194304

\* signer.go:620  duration := 7 * 24 * time.Hour, in seconds
SevenDays == 604800

\* signer.go:624  date := now.Add(-24 * time.Hour), in seconds
OneDay == 86400

\* signer.go:54-68, the keys as written in the source
statefulResponseHeaders ==
  { "Authentication-Control", "Authentication-Info", "Clear-Site-Data",
    "Optional-WWW-Authenticate", "Proxy-Authenticate",
    "Proxy-Authentication-Info", "Public-Key-Pins", "Sec-WebSocket-Accept",
    "Set-Cookie", "Set-Cookie2", "SetProfile", "Strict-Transport-Security",
    "WWW-Authenticate" }

\* signer.go:74-81, the keys as written in the source
statusNotModifiedHeaders ==
  { "Cache-Control", "Content-Location", "Date", "ETag", "Expires", "Vary" }

\* signer.go:411-413, the names passed to Header.Get
variantsHeaders == { "Variants", "Variant-Key", "Variants-04", "Variant-Key-04" }

\* signer.go:325, the value added to the outer Vary header
varyValue == "Accept, AMP-Cache-Transform"

\* accept.SxgContentType, used at signer.go:661
SxgContentType == "application/signed-exchange;v=b3"

\* signer.go:47-49
userAgent ==
  "Mozilla/5.0 (Linux; Android 6.0.1; Nexus 5X Build/MMB29P) "
    \o "AppleWebKit/537.36 (KHTML, like Gecko) Chrome/41.0.2272.96 Mobile "
    \o "Safari/537.36 (compatible; amppackager/0.0.0; +https://github.com/ampproject/amppackager)"

\* util.ConditionalRequestHeaders, ranged over at signer.go:187
ConditionalRequestHeaders ==
  { "If-Match", "If-None-Match", "If-Modified-Since", "If-Unmodified-Since",
    "If-Range" }

(***************************************************************************)
(* net/http header maps: a function from canonical header names to the      *)
(* sequence of values of that name.                                         *)
(***************************************************************************)
\* http.CanonicalHeaderKey on the names this file uses: the first letter and
\* every letter after a hyphen become upper case, the others lower case.
CanonicalHeaderKey(name) ==
  CASE name = "SetProfile" -> "Setprofile"
    [] name = "WWW-Authenticate" -> "Www-Authenticate"
    [] name = "Optional-WWW-Authenticate" -> "Optional-Www-Authenticate"
    [] name = "Sec-WebSocket-Accept" -> "Sec-Websocket-Accept"
    [] name = "ETag" -> "Etag"
    [] name = "AMP-Cache-Transform" -> "Amp-Cache-Transform"
    [] name = "user-agent" -> "User-Agent"
    [] name = "host" -> "Host"
    [] name \in {"set-cookie", "SET-COOKIE"} -> "Set-Cookie"
    [] name = "x-extra" -> "X-Extra"
    [] OTHER -> name

EmptyHeader == [k \in {} |-> <<>>]

\* h[CanonicalHeaderKey(name)] = <<v>>   (http.Header.Set)
HeaderSet(h, name, v) ==
  [k \in DOMAIN h \cup {CanonicalHeaderKey(name)} |->
     IF k = CanonicalHeaderKey(name) THEN <<v>> ELSE h[k]]

\* append v to the values of name   (http.Header.Add)
HeaderAdd(h, name, v) ==
  [k \in DOMAIN h \cup {CanonicalHeaderKey(name)} |->
     IF k = CanonicalHeaderKey(name)
       THEN (IF k \in DOMAIN h THEN Append(h[k], v) ELSE <<v>>)
       ELSE h[k]]

\* delete(h, CanonicalHeaderKey(name))   (http.Header.Del)
HeaderDel(h, name) ==
  [k \in DOMAIN h \ {CanonicalHeaderKey(name)} |-> h[k]]

\* first value of name, or ""   (http.Header.Get)
HeaderGet(h, name) ==
  IF CanonicalHeaderKey(name) \in DOMAIN h /\ Len(h[CanonicalHeaderKey(name)]) > 0
    THEN h[CanonicalHeaderKey(name)][1]
    ELSE ""

\* strings.Join(values, sep)
RECURSIVE Join(_, _)
Join(values, sep) ==
  IF Len(values) = 0 THEN ""
  ELSE IF Len(values) = 1 THEN values[1]
  ELSE values[1] \o sep \o Join(Tail(values), sep)

\* GetJoined without the Set-Cookie case.
GetJoined_JoinsAll(h, name) ==
  IF CanonicalHeaderKey(name) \in DOMAIN h
    THEN Join(h[CanonicalHeaderKey(name)], ", ")
    ELSE ""

\* signer.go:102-113
GetJoined(h, name) ==
  IF CanonicalHeaderKey(name) \in DOMAIN h
    THEN IF CanonicalHeaderKey(name) = "Set-Cookie"
              /\ Len(h[CanonicalHeaderKey(name)]) > 0
           THEN h[CanonicalHeaderKey(name)][1]
           ELSE Join(h[CanonicalHeaderKey(name)], ", ")
    ELSE ""

(***************************************************************************)
(* Inputs of a request.                                                     *)
(***************************************************************************)
\* Header names an upstream response may carry, in canonical form (the form
\* net/http stores them under).
UpstreamHeaderNames ==
  { CanonicalHeaderKey(n) : n \in statefulResponseHeaders }
    \cup { CanonicalHeaderKey(n) : n \in statusNotModifiedHeaders }
    \cup variantsHeaders
    \cup { "Content-Security-Policy", "Link", "Content-Length",
           "X-Content-Type-Options", "Content-Type", "X-Extra", "Keep-Alive" }

\* Strings a header value is drawn from.
HeaderValueStrings == { "", "a", "b" }

\* Value lists of one header: 1..MaxValues values.
HeaderValueLists ==
  UNION { [1..n -> HeaderValueStrings] : n \in 1..MaxValues }

\* A Content-Security-Policy an upstream may send.
PublisherCsp ==
  "script-src 'self'; font-src https://f.example; frame-ancestors 'none'"

\* The value of a header that has one plain value.
PlainValue(name) ==
  IF name = "Content-Security-Policy" THEN PublisherCsp ELSE "a"

\* Upstream header maps: up to MaxHeaders headers with one plain value each,
\* or one header with any value list.
RECURSIVE SubsetsUpTo(_, _)
SubsetsUpTo(S, n) ==
  IF n = 0 THEN { {} }
  ELSE SubsetsUpTo(S, n - 1)
         \cup { s \cup {x} : s \in SubsetsUpTo(S, n - 1), x \in S }

UpstreamHeaderMaps ==
  { [k \in names |-> <<PlainValue(k)>>] :
      names \in SubsetsUpTo(UpstreamHeaderNames, MaxHeaders) }
    \cup { [k \in {name} |-> vals] :
             name \in UpstreamHeaderNames, vals \in HeaderValueLists }

\* Upstream status codes: OK, a redirect, Not Modified, an error.
UpstreamStatusCodes == { 200, 302, 304, 404 }

\* Upstream body lengths around the cap (bytes are identified by position).
UpstreamBodyLengths ==
  { 0, 1024, maxSignableBodyLength - 1, maxSignableBodyLength,
    maxSignableBodyLength + 1 }

\* Inbound AMP-Cache-Transform and Accept values.
AcceptableTransform == "google;v=\"1..8\""
SxgAccept == "application/signed-exchange;v=b3"

\* The inbound headers of a cache that asks for a signed exchange.
NegotiatingHeader ==
  [k \in {"Amp-Cache-Transform", "Accept"} |->
     IF k = "Accept" THEN <<SxgAccept>> ELSE <<AcceptableTransform>>]

\* The plain request: no path parameter, no fetch value, one sign value, the
\* headers of a cache that asks for a signed exchange.
PlainRequest ==
  [inPathSignURL |-> FALSE, nFetch |-> 0, nSign |-> 1, parseFormErr |-> FALSE,
   Header |-> NegotiatingHeader, Host |-> "example.com", Proto |-> "HTTP/1.1"]

\* The same request without any header.
BareRequest == [PlainRequest EXCEPT !.Header = EmptyHeader]

\* Requests that differ in their parameters.
FormRequests ==
  { [PlainRequest EXCEPT !.inPathSignURL = p, !.nFetch = f, !.nSign = g,
                         !.parseFormErr = e] :
      p \in BOOLEAN, f \in 0..2, g \in 0..2, e \in BOOLEAN }

\* Inbound header maps that differ in AMP-Cache-Transform and Accept: each
\* absent or with one of the value lists.
InboundTransformValues == { <<AcceptableTransform>>, <<"bing">>, <<"">> }
InboundAcceptValues ==
  { <<SxgAccept>>, <<"text/html">>, <<"text/html", SxgAccept>>,
    <<"application/signed-exchange;v=b2">> }

NegotiationHeaders ==
  { EmptyHeader }
    \cup { [k \in {"Amp-Cache-Transform"} |-> t] : t \in InboundTransformValues }
    \cup { [k \in {"Accept"} |-> a] : a \in InboundAcceptValues }
    \cup { [k \in {"Amp-Cache-Transform", "Accept"} |->
              IF k = "Accept" THEN a ELSE t] :
              t \in InboundTransformValues, a \in InboundAcceptValues }

NegotiationRequests ==
  { [PlainRequest EXCEPT !.Header = h] : h \in NegotiationHeaders }

\* Inbound headers fetchURL may look at: at most one of them besides the
\* two negotiation headers.
InboundExtraHeaders ==
  { [name |-> "User-Agent", values |-> <<"curl/8">>],
    [name |-> "Connection", values |-> <<"keep-alive">>],
    [name |-> "Keep-Alive", values |-> <<"timeout=5">>],
    [name |-> "X-Custom", values |-> <<"a", "b">>],
    [name |-> "If-None-Match", values |-> <<"\"abc\"">>],
    [name |-> "Via", values |-> <<"1.0 fred">>],
    [name |-> "X-Forwarded-Host", values |-> <<"cache.example">>] }

InboundHosts == { "example.com", "line\nbreak" }
InboundProtos == { "HTTP/1.1", "HTTP/1.1 x" }

FetchRequests ==
  { [PlainRequest EXCEPT !.Header = h, !.Host = host, !.Proto = proto] :
      h \in { NegotiatingHeader }
              \cup { [k \in DOMAIN NegotiatingHeader \cup {e.name} |->
                        IF k = e.name THEN e.values ELSE NegotiatingHeader[k]] :
                        e \in InboundExtraHeaders },
      host \in InboundHosts, proto \in InboundProtos }

Requests == FormRequests \cup NegotiationRequests \cup FetchRequests

\* Signer.forwardedRequestHeaders values, as written in the configuration.
ForwardAllowlists ==
  { <<>>, <<"X-Custom">>, <<"host">>, <<"user-agent">>, <<"Connection">>,
    <<"Via", "Keep-Alive">> }

\* The plain upstream response: 200, no header, a small body.
PlainOrigin == [StatusCode |-> 200, Header |-> EmptyHeader, bodyLen |-> 1024]

Origins ==
  [StatusCode : UpstreamStatusCodes, Header : UpstreamHeaderMaps,
   bodyLen : {1024}]
    \cup [StatusCode : {200, 302}, Header : {EmptyHeader, [k \in {"Vary"} |-> <<"a">>]},
          bodyLen : UpstreamBodyLengths]

\* metadata.MaxAgeSecs values returned by the transformer (seconds).
MaxAgeSecsValues == { -1, 0, 3600, OneDay, OneDay + 1, SevenDays, SevenDays + 1 }

\* Values of time.Now(), seconds.
NowValues == { OneDay, 1000000 }

\* Lengths of the transformed document.
TransformedLengths == { 0, 1200 }

\* A byte slice or reader that may be nil.
Nil == [nil |-> TRUE, lo |-> 1, hi |-> 0]
Bytes(lo, hi) == [nil |-> FALSE, lo |-> lo, hi |-> hi]

(***************************************************************************)
(* State.                                                                   *)
(***************************************************************************)
VARIABLES
  pc,                     \* position in ServeHTTP / consumeAndSign / serveSignedExchange
  request,                \* the inbound request's parameters
  requireHeaders,         \* Signer.requireHeaders
  forwardedRequestHeaders, \* Signer.forwardedRequestHeaders
  fetchReq,               \* the outbound request of fetchURL
  logged,                 \* the reason logged for not packaging
  origin,                 \* the response the upstream origin gives
  errorOnStatefulHeaders, \* result of parseURLs
  fetchResp,              \* the fetched response; Header is the shared map
  act,                    \* amp_cache_transform.ShouldSendSXG result
  body,                   \* the consumed body, or Nil before it is read
  transformedLen,         \* len(transformed)
  linkHeader,             \* result of formatLinkHeader
  maxAgeSecs,             \* metadata.MaxAgeSecs
  exchange,               \* the signedexchange.Exchange being built
  resp,                   \* the http.ResponseWriter
  metrics,                \* prometheus counters
  bodyClosed,             \* fetchResp.Body.Close() was called
  passed,                 \* checks of the decision tree passed so far
  fetchedHeader,          \* the header map as fetchURL returned it
  mutated,                \* serveSignedExchange has mutated fetchResp.Header
  copyErr,                \* io.Copy of the body to the client returned an error
  outcome,                \* how the request ended
  call                    \* a call of one of the exported functions

vars ==
  << pc, request, requireHeaders, forwardedRequestHeaders, fetchReq, logged, origin, errorOnStatefulHeaders, fetchResp, act,
     body, transformedLen, linkHeader, maxAgeSecs, exchange, resp, metrics,
     bodyClosed, passed, fetchedHeader, mutated, copyErr, outcome, call >>

\* No function is being called.
NoCall == [fn |-> "", arg |-> <<>>, result |-> "", done |-> FALSE]

NoFetchReq == [Method |-> "", Host |-> "", Header |-> EmptyHeader]

NoFetchResp == [StatusCode |-> 0, Header |-> EmptyHeader, bodyLen |-> 0, readPos |-> 0]

NoExchange ==
  [built |-> FALSE, status |-> 0, header |-> EmptyHeader, payloadLen |-> 0,
   miEncoded |-> FALSE, signed |-> FALSE, now |-> 0, date |-> 0, expires |-> 0,
   serialized |-> FALSE]

NewResponseWriter ==
  [header |-> EmptyHeader, wroteHeader |-> FALSE, status |-> 0,
   sent |-> EmptyHeader, body |-> <<>>, writeHeaderCalls |-> 0]

Init ==
  /\ pc = "start"
  /\ requireHeaders \in BOOLEAN
  /\ \/ /\ request = PlainRequest
        /\ origin \in Origins
        /\ forwardedRequestHeaders = <<>>
     \/ /\ request = BareRequest
        /\ requireHeaders
        /\ origin \in Origins
        /\ forwardedRequestHeaders = <<>>
     \/ /\ request \in FormRequests \cup NegotiationRequests
        /\ origin = PlainOrigin
        /\ forwardedRequestHeaders = <<>>
     \/ /\ request \in FetchRequests
        /\ origin = PlainOrigin
        /\ forwardedRequestHeaders \in ForwardAllowlists
  /\ fetchReq = NoFetchReq
  /\ logged = ""
  /\ errorOnStatefulHeaders = FALSE
  /\ fetchResp = NoFetchResp
  /\ act = ""
  /\ body = Nil
  /\ transformedLen = 0
  /\ linkHeader = ""
  /\ maxAgeSecs = 0
  /\ exchange = NoExchange
  /\ resp = NewResponseWriter
  /\ metrics = [signed |-> 0, proxied |-> 0, sizes |-> <<>>]
  /\ bodyClosed = FALSE
  /\ passed = {}
  /\ fetchedHeader = EmptyHeader
  /\ mutated = FALSE
  /\ copyErr = FALSE
  /\ outcome = "none"
  /\ call = NoCall

(***************************************************************************)
(* http.ResponseWriter.                                                     *)
(***************************************************************************)
\* A run of body bytes written to the client: bytes lo..hi of the upstream
\* body, the serialized signed exchange, or an error message.
UpstreamBytes(lo, hi) == [kind |-> "upstream", lo |-> lo, hi |-> hi]
SxgBytes == [kind |-> "sxg", lo |-> 0, hi |-> 0]
ErrorBytes == [kind |-> "error", lo |-> 0, hi |-> 0]

\* resp.WriteHeader(code): the first call sends the status and the headers as
\* they are then; a later call is superfluous and sends nothing.
WriteHeader(r, code) ==
  IF r.wroteHeader
    THEN [r EXCEPT !.writeHeaderCalls = @ + 1]
    ELSE [r EXCEPT !.wroteHeader = TRUE, !.status = code, !.sent = r.header,
                   !.writeHeaderCalls = @ + 1]

\* resp.Write(data): sends 200 and the headers first if no status was sent.
Write(r, data) ==
  LET r1 == IF r.wroteHeader THEN r
            ELSE [r EXCEPT !.wroteHeader = TRUE, !.status = 200, !.sent = r.header]
  IN IF data.kind = "upstream" /\ data.lo > data.hi
       THEN r1
       ELSE [r1 EXCEPT !.body = Append(@, data)]

\* util.HTTPError.LogAndRespond: http.Error(resp, msg, code).
LogAndRespond(r, code) ==
  Write(
    WriteHeader(
      [r EXCEPT !.header =
         HeaderSet(HeaderSet(@, "Content-Type", "text/plain; charset=utf-8"),
                   "X-Content-Type-Options", "nosniff")],
      code),
    ErrorBytes)

(***************************************************************************)
(* Proxy fallback, signer.go:682-725.                                       *)
(***************************************************************************)
\* Outcomes of io.Copy(resp, suffix): all bytes copied and no error, or an
\* error after none or after the first of them.
CopyOutcomes(suffix) ==
  { [copied |-> suffix.hi - suffix.lo + 1, err |-> FALSE],
    [copied |-> 0, err |-> TRUE] }
    \cup (IF suffix.hi > suffix.lo THEN {[copied |-> 1, err |-> TRUE]} ELSE {})

\* signer.go:704-706  for k, v := range header { resp.Header()[k] = v }
CopyHeader(dst, header) ==
  [k \in DOMAIN dst \cup DOMAIN header |->
     IF k \in DOMAIN header THEN header[k] ELSE dst[k]]

\* signer.go:703-722, the writes to resp; copy is the outcome of io.Copy.
proxyImpl(r, header, statusCode, consumedPrefix, unconsumedSuffix, copy) ==
  LET r1 == WriteHeader([r EXCEPT !.header = CopyHeader(@, header)], statusCode)
      r2 == IF ~consumedPrefix.nil
              THEN Write(r1, UpstreamBytes(consumedPrefix.lo, consumedPrefix.hi))
              ELSE r1
      r3 == IF ~unconsumedSuffix.nil
              THEN Write(r2, UpstreamBytes(unconsumedSuffix.lo,
                                           unconsumedSuffix.lo + copy.copied - 1))
              ELSE r2
  IN IF ~unconsumedSuffix.nil /\ copy.err /\ copy.copied = 0
       THEN LogAndRespond(r3, 500)
       ELSE r3

\* The proxy fallback left uncounted.
IncProxied_Never(m) == m

\* signer.go:724
IncProxied(m) == [m EXCEPT !.proxied = @ + 1]

\* The unread part of fetchResp.Body.
BodyReader(f) == Bytes(f.readPos + 1, f.bodyLen)

\* The handler returning without the deferred Close.
Return_NoClose(how) ==
  /\ pc' = "done"
  /\ outcome' = how
  /\ bodyClosed' = bodyClosed

\* The handler returns: the deferred fetchResp.Body.Close() runs
\* (signer.go:359-363) if the fetch had succeeded.
Return(how) ==
  /\ pc' = "done"
  /\ outcome' = how
  /\ bodyClosed' = (fetchResp # NoFetchResp)

\* signer.go:682-686, then return
ProxyUnconsumedAndReturn ==
  \E copy \in CopyOutcomes(BodyReader(fetchResp)) :
    /\ resp' = proxyImpl(resp, fetchResp.Header, fetchResp.StatusCode, Nil,
                         BodyReader(fetchResp), copy)
    /\ fetchResp' = [fetchResp EXCEPT !.readPos = @ + copy.copied]
    /\ copyErr' = copy.err
    /\ metrics' = IncProxied(metrics)
    /\ Return("proxied")

\* The proxy of a consumed response reading the drained body reader.
ProxyConsumedAndReturn_Drained == ProxyUnconsumedAndReturn

\* signer.go:694-698, then return
ProxyConsumedAndReturn ==
  /\ resp' = proxyImpl(resp, fetchResp.Header, fetchResp.StatusCode,
                       body, Nil, [copied |-> 0, err |-> FALSE])
  /\ fetchResp' = fetchResp
  /\ copyErr' = copyErr
  /\ metrics' = IncProxied(metrics)
  /\ Return("proxied")

(***************************************************************************)
(* Signer.ServeHTTP, signer.go:324-436.                                     *)
(***************************************************************************)
\* util.RemoveHopByHopHeaders: the standard hop-by-hop headers and every name
\* listed in Connection are removed.
DelAll(h, names) ==
  [k \in DOMAIN h \ {CanonicalHeaderKey(n) : n \in names} |-> h[k]]

HopByHopHeaders ==
  { "Connection", "Keep-Alive", "Proxy-Authenticate", "Proxy-Authorization",
    "Te", "Trailers", "Transfer-Encoding", "Upgrade" }

RemoveHopByHopHeaders(h) ==
  DelAll(h, HopByHopHeaders
              \cup (IF "Connection" \in DOMAIN h
                      THEN { h["Connection"][i] : i \in 1..Len(h["Connection"]) }
                      ELSE {}))

\* util.QuotedString: fails on a value that holds a control character, else
\* the value between double quotes.
QuotedStringFails(val) == val = "line\nbreak"
QuotedString(val) == "\"" \o val \o "\""

\* signer.go:99: the protocol grammar; a protocol with a space does not match.
ProtocolMatches(proto) == proto \in { "HTTP/1.0", "HTTP/1.1", "HTTP/2.0" }

\* strings.TrimPrefix(proto, "HTTP/"), signer.go:169
TrimHttpPrefix(proto) ==
  CASE proto = "HTTP/1.0" -> "1.0"
    [] proto = "HTTP/1.1" -> "1.1"
    [] proto = "HTTP/2.0" -> "2.0"
    [] OTHER -> proto

\* signer.go:158-164: the loop over forwardedRequestHeaders.
RECURSIVE ForwardHeaders(_, _, _)
ForwardHeaders(req, headers, serveHTTPReq) ==
  IF headers = <<>> THEN req
  ELSE LET header == Head(headers)
           value == GetJoined(serveHTTPReq.Header, header)
           next == IF CanonicalHeaderKey(header) = "Host"
                     THEN [req EXCEPT !.Host = serveHTTPReq.Host]
                     ELSE IF value # ""
                       THEN [req EXCEPT !.Header = HeaderSet(@, header, value)]
                       ELSE req
       IN ForwardHeaders(next, Tail(headers), serveHTTPReq)

\* signer.go:167-174
SetVia(req, serveHTTPReq) ==
  IF ProtocolMatches(serveHTTPReq.Proto)
    THEN LET via == TrimHttpPrefix(serveHTTPReq.Proto) \o " " \o "amppkg"
             upstreamVia == GetJoined(req.Header, "Via")
         IN [req EXCEPT !.Header =
               HeaderSet(@, "Via", IF upstreamVia # ""
                                     THEN upstreamVia \o ", " \o via
                                     ELSE via)]
    ELSE req

\* signer.go:175-185
SetForwarded(req, serveHTTPReq) ==
  LET quotedHost == QuotedString(serveHTTPReq.Host)
      oldXFH == HeaderGet(serveHTTPReq.Header, "X-Forwarded-Host")
      xfh == IF oldXFH # "" THEN oldXFH \o "," \o serveHTTPReq.Host
                            ELSE serveHTTPReq.Host
  IN IF ~QuotedStringFails(serveHTTPReq.Host)
       THEN [req EXCEPT !.Header =
               HeaderSet(HeaderSet(@, "Forwarded", "host=" \o quotedHost),
                         "X-Forwarded-Host", xfh)]
       ELSE req

\* signer.go:187-191
RECURSIVE SetConditionalHeaders(_, _, _)
SetConditionalHeaders(req, names, serveHTTPReq) ==
  IF names = {} THEN req
  ELSE LET header == CHOOSE x \in names : TRUE
           value == GetJoined(serveHTTPReq.Header, header)
       IN SetConditionalHeaders(
            IF value # "" THEN [req EXCEPT !.Header = HeaderSet(@, header, value)]
                          ELSE req,
            names \ {header}, serveHTTPReq)

\* http.NewRequest(http.MethodGet, ampURL, nil), signer.go:152: the Host is
\* the fetch URL's.
NewRequest == [Method |-> "GET", Host |-> "origin.example", Header |-> EmptyHeader]

\* signer.go:152-191: the request fetchURL hands to client.Do.
fetchURL(forwarded, serveHTTPReq) ==
  LET r0 == [NewRequest EXCEPT !.Header = HeaderSet(@, "User-Agent", userAgent)]
      r1 == ForwardHeaders(r0, forwarded, serveHTTPReq)
      r2 == SetVia(r1, serveHTTPReq)
      r3 == SetForwarded(r2, serveHTTPReq)
  IN SetConditionalHeaders(r3, ConditionalRequestHeaders, serveHTTPReq)

\* amp_cache_transform.ShouldSendSXG, called at signer.go:374: the header to
\* echo for a header value that names an acceptable transform, "" otherwise.
ShouldSendSXG(header_value) ==
  IF header_value = AcceptableTransform THEN "google;v=\"1\"" ELSE ""

\* accept.CanSatisfy, called at signer.go:389: the Accept value admits
\* application/signed-exchange in the current version.
CanSatisfy(accept) ==
  accept \in { SxgAccept, "text/html, " \o SxgAccept }

\* The log line written before the handler returns with outcome how.
LogIf(how, why) == logged' = IF outcome' = how THEN why ELSE logged

\* The parameter test taking a missing sign value.
ParameterError_SignOptional(r) ==
  IF r.parseFormErr THEN "Form input parsing failed: "
  ELSE IF r.inPathSignURL THEN ""
  ELSE IF r.nFetch > 1 THEN "More than 1 fetch param"
  ELSE IF r.nSign > 1 THEN "Not exactly 1 sign param"
  ELSE ""

\* signer.go:327-346: the message of the 400 the parameters are refused
\* with, "" when they are admitted.
ParameterError(r) ==
  IF r.parseFormErr THEN "Form input parsing failed: "
  ELSE IF r.inPathSignURL THEN ""
  ELSE IF r.nFetch > 1 THEN "More than 1 fetch param"
  ELSE IF r.nSign # 1 THEN "Not exactly 1 sign param"
  ELSE ""

\* signer.go:325-351: the Vary header, form parsing, the parameters, parseURLs.
\* parseURLs fails with 400 or 404, or returns the URL set's
\* ErrorOnStatefulHeaders.
Admit ==
  /\ pc = "start"
  /\ LET r0 == [resp EXCEPT !.header = HeaderAdd(@, "Vary", varyValue)]
     IN IF ParameterError(request) # ""
          THEN /\ resp' = LogAndRespond(r0, 400)
               /\ logged' = ParameterError(request)
               /\ Return("error")
               /\ UNCHANGED errorOnStatefulHeaders
          ELSE \/ \E code \in {400, 404} :
                    /\ resp' = LogAndRespond(r0, code)
                    /\ logged' = "parseURLs"
                    /\ Return("error")
                    /\ UNCHANGED errorOnStatefulHeaders
               \/ /\ resp' = r0
                  /\ errorOnStatefulHeaders' \in BOOLEAN
                  /\ pc' = "fetch"
                  /\ UNCHANGED << outcome, bodyClosed, logged >>
  /\ UNCHANGED << call, request, requireHeaders, forwardedRequestHeaders, fetchReq,
                  origin, fetchResp, act, body,
                  transformedLen, linkHeader, maxAgeSecs, exchange, metrics,
                  passed, fetchedHeader, mutated, copyErr >>

\* signer.go:353-363 with fetchURL, signer.go:148-197: the request cannot be
\* built (500), or it is sent and the fetch fails with 502, or returns the origin's response less its hop-by-hop headers.
Fetch ==
  /\ pc = "fetch"
  /\ \/ /\ resp' = LogAndRespond(resp, 500)
        /\ logged' = "Error building request: "
        /\ Return("error")
        /\ UNCHANGED << fetchReq, fetchResp, fetchedHeader >>
     \/ /\ fetchReq' = fetchURL(forwardedRequestHeaders, request)
        /\ resp' = LogAndRespond(resp, 502)
        /\ logged' = "Error fetching: "
        /\ Return("error")
        /\ UNCHANGED << fetchResp, fetchedHeader >>
     \/ /\ fetchReq' = fetchURL(forwardedRequestHeaders, request)
        /\ fetchResp' = [StatusCode |-> origin.StatusCode,
                         Header |-> RemoveHopByHopHeaders(origin.Header),
                         bodyLen |-> origin.bodyLen, readPos |-> 0]
        /\ fetchedHeader' = RemoveHopByHopHeaders(origin.Header)
        /\ pc' = "health"
        /\ UNCHANGED << resp, outcome, bodyClosed, logged >>
  /\ UNCHANGED << call, request, requireHeaders, forwardedRequestHeaders, origin,
                  errorOnStatefulHeaders, act,
                  body, transformedLen, linkHeader, maxAgeSecs, exchange, metrics,
                  passed, mutated, copyErr >>

\* What the steps of the decision tree leave alone.
PolicyFrame ==
  UNCHANGED << call, request, requireHeaders, forwardedRequestHeaders, fetchReq,
               origin, errorOnStatefulHeaders, body,
               transformedLen, linkHeader, maxAgeSecs, exchange, fetchedHeader,
               mutated >>

\* A check of the decision tree passed: go on to the next step.
Pass(check, next) ==
  /\ passed' = passed \cup {check}
  /\ pc' = next
  /\ UNCHANGED << resp, fetchResp, metrics, outcome, bodyClosed, copyErr >>

\* The health gate with the unhealthy answer logged and not acted on.
HealthGate_IgnoresUnhealthy ==
  /\ pc = "health"
  /\ \/ /\ pc' = "negotiate"
        /\ UNCHANGED << resp, fetchResp, metrics, outcome, bodyClosed, copyErr,
                        passed >>
     \/ Pass("health", "negotiate")
  /\ UNCHANGED << act, logged >>
  /\ PolicyFrame

\* signer.go:365-369: shouldPackage() returns an error or nil.
HealthGate ==
  /\ pc = "health"
  /\ \/ ProxyUnconsumedAndReturn /\ UNCHANGED passed
     \/ Pass("health", "negotiate")
  /\ LogIf("proxied", "server is unhealthy")
  /\ UNCHANGED act
  /\ PolicyFrame

\* The Accept test never refusing.
AcceptRefuses_Never(require, header) == FALSE

\* signer.go:389
AcceptRefuses(require, header) ==
  require /\ ~CanSatisfy(GetJoined(header, "Accept"))

\* signer.go:370-393: with requireHeaders, ShouldSendSXG returns "" or the
\* header to echo; without, SelectVersion(nil) fails or not; then the Accept
\* test.
Negotiate ==
  /\ pc = "negotiate"
  /\ IF requireHeaders
       THEN LET header_value == GetJoined(request.Header, "AMP-Cache-Transform")
            IN /\ act' = ShouldSendSXG(header_value)
               /\ IF act' = ""
                    THEN /\ ProxyUnconsumedAndReturn
                         /\ logged' = "AMP-Cache-Transform request header is invalid"
                         /\ UNCHANGED passed
                    ELSE IF AcceptRefuses(requireHeaders, request.Header)
                      THEN /\ ProxyUnconsumedAndReturn
                           /\ logged' = "Accept request header lacks application/signed-exchange"
                           /\ UNCHANGED passed
                      ELSE Pass("negotiation", "status") /\ UNCHANGED logged
       ELSE /\ UNCHANGED act
            /\ \/ /\ ProxyUnconsumedAndReturn
                  /\ logged' = "internal SelectVersion error"
                  /\ UNCHANGED passed
               \/ IF AcceptRefuses(requireHeaders, request.Header)
                    THEN /\ ProxyUnconsumedAndReturn
                         /\ logged' = "Accept request header lacks application/signed-exchange"
                         /\ UNCHANGED passed
                    ELSE Pass("negotiation", "status") /\ UNCHANGED logged
  /\ PolicyFrame

\* The 304 branch copying every upstream header, as the proxy does.
CopyNotModifiedHeaders_All(dst, src, names) == CopyHeader(dst, src)

\* signer.go:423-429
RECURSIVE CopyNotModifiedHeaders(_, _, _)
CopyNotModifiedHeaders(dst, src, names) ==
  IF names = {} THEN dst
  ELSE LET header == CHOOSE x \in names : TRUE
       IN CopyNotModifiedHeaders(
            IF GetJoined(src, header) # ""
              THEN HeaderSet(dst, header, GetJoined(src, header))
              ELSE dst,
            src, names \ {header})

\* The status test taking every status but 304 for a 200.
IsOK_AllButNotModified(statusCode) == statusCode # 304

\* signer.go:396  case 200
IsOK(statusCode) == statusCode = 200

\* signer.go:395-396, 423-435: the switch on fetchResp.StatusCode.
StatusDispatch ==
  /\ pc = "status"
  /\ IF IsOK(fetchResp.StatusCode)
       THEN Pass("status", "validate")
       ELSE IF fetchResp.StatusCode = 304
         THEN /\ resp' = WriteHeader(
                           [resp EXCEPT !.header =
                              CopyNotModifiedHeaders(@, fetchResp.Header,
                                                     statusNotModifiedHeaders)],
                           304)
              /\ Return("notmodified")
              /\ UNCHANGED << fetchResp, metrics, passed, copyErr >>
         ELSE ProxyUnconsumedAndReturn /\ UNCHANGED passed
  /\ LogIf("proxied", "status code is unrecognized")
  /\ UNCHANGED act
  /\ PolicyFrame

\* signer.go:398-402: validateFetch returns an error or nil.
ValidateFetch ==
  /\ pc = "validate"
  /\ \/ ProxyUnconsumedAndReturn /\ UNCHANGED passed
     \/ Pass("validation", "stateful")
  /\ LogIf("proxied", "invalid fetch")
  /\ UNCHANGED act
  /\ PolicyFrame

\* signer.go:403-409
HasStatefulHeader(h) ==
  \E header \in statefulResponseHeaders : GetJoined(h, header) # ""

\* The stateful check going on to consumeAndSign, past the variants check.
StatefulCheck_SkipsVariants ==
  /\ pc = "stateful"
  /\ IF errorOnStatefulHeaders /\ HasStatefulHeader(fetchResp.Header)
       THEN ProxyUnconsumedAndReturn /\ UNCHANGED passed
       ELSE Pass("stateful", "consume")
  /\ LogIf("proxied", "fetch response contains stateful header")
  /\ UNCHANGED act
  /\ PolicyFrame

\* signer.go:403-410
StatefulCheck ==
  /\ pc = "stateful"
  /\ IF errorOnStatefulHeaders /\ HasStatefulHeader(fetchResp.Header)
       THEN ProxyUnconsumedAndReturn /\ UNCHANGED passed
       ELSE Pass("stateful", "variants")
  /\ LogIf("proxied", "fetch response contains stateful header")
  /\ UNCHANGED act
  /\ PolicyFrame

\* signer.go:411-413
HasVariantsHeader(h) ==
  \E header \in variantsHeaders : HeaderGet(h, header) # ""

\* signer.go:411-421
VariantsCheck ==
  /\ pc = "variants"
  /\ IF HasVariantsHeader(fetchResp.Header)
       THEN ProxyUnconsumedAndReturn /\ UNCHANGED passed
       ELSE Pass("variants", "consume")
  /\ LogIf("proxied", "response contains a Variants header")
  /\ UNCHANGED act
  /\ PolicyFrame

(***************************************************************************)
(* Signer.consumeAndSign, signer.go:508-525.                                *)
(***************************************************************************)
Min(a, b) == IF a < b THEN a ELSE b

\* What the steps of consumeAndSign and serveSignedExchange leave alone.
PackagerFrame ==
  UNCHANGED << call, request, requireHeaders, forwardedRequestHeaders, fetchReq,
               origin, errorOnStatefulHeaders, act, fetchedHeader >>

\* The limit test with > in place of ==.
HitLimit_Above(n) == n > maxSignableBodyLength

\* signer.go:516: the capped read returned as many bytes as the cap allows.
HitLimit(n) == n = maxSignableBodyLength

\* signer.go:510-523: ReadAll of the capped reader fails, or returns the first
\* Min(bodyLen, maxSignableBodyLength) bytes.
ConsumeBody ==
  /\ pc = "consume"
  /\ \/ /\ resp' = LogAndRespond(resp, 502)
        /\ Return("error")
        /\ UNCHANGED << fetchResp, body, metrics, passed, copyErr >>
     \/ LET n == Min(fetchResp.bodyLen, maxSignableBodyLength)
            read == [fetchResp EXCEPT !.readPos = n]
        IN /\ body' = Bytes(1, n)
           /\ IF HitLimit(n)
                THEN \E copy \in CopyOutcomes(BodyReader(read)) :
                       /\ resp' = proxyImpl(resp, read.Header, read.StatusCode,
                                            Bytes(1, n), BodyReader(read), copy)
                       /\ fetchResp' = [read EXCEPT !.readPos = @ + copy.copied]
                       /\ copyErr' = copy.err
                       /\ metrics' = IncProxied(metrics)
                       /\ Return("proxied")
                       /\ UNCHANGED passed
                ELSE /\ fetchResp' = read
                     /\ passed' = passed \cup {"size"}
                     /\ pc' = "transform"
                     /\ UNCHANGED << resp, metrics, outcome, bodyClosed, copyErr >>
  /\ logged' = CASE outcome' = "error" -> "Error reading body: "
                  [] outcome' = "proxied" -> "the document size hit the limit"
                  [] OTHER -> logged
  /\ UNCHANGED << transformedLen, linkHeader, maxAgeSecs, exchange, mutated >>
  /\ PackagerFrame

(***************************************************************************)
(* formatLinkHeader, signer.go:438-475.                                     *)
(***************************************************************************)
\* url.Parse: fails on an invalid percent-escape.
UrlParses(u) == u # "https://a.example/%gh"

\* u.String() after u.RawQuery = url.PathEscape(u.RawQuery): a space in the
\* query becomes %20.
EscapedUrl(u) ==
  IF u = "https://a.example/x.js?v=1 2" THEN "https://a.example/x.js?v=1%202" ELSE u

\* The attributes with a value that cannot be quoted left out and the
\* preload kept.
RECURSIVE FormatAttributes_KeepsPreload(_)
FormatAttributes_KeepsPreload(attrs) ==
  IF Len(attrs) = 0 THEN [valid |-> TRUE, value |-> ""]
  ELSE IF QuotedStringFails(attrs[1].Val) THEN [valid |-> TRUE, value |-> ""]
  ELSE LET rest == FormatAttributes_KeepsPreload(Tail(attrs))
       IN [valid |-> TRUE,
           value |-> ";" \o attrs[1].Key \o "=" \o QuotedString(attrs[1].Val)
                       \o rest.value]

\* signer.go:459-469: the attributes of one preload; valid is FALSE once a
\* value cannot be quoted.
RECURSIVE FormatAttributes(_)
FormatAttributes(attrs) ==
  IF Len(attrs) = 0 THEN [valid |-> TRUE, value |-> ""]
  ELSE IF QuotedStringFails(attrs[1].Val) THEN [valid |-> FALSE, value |-> ""]
  ELSE LET rest == FormatAttributes(Tail(attrs))
       IN [valid |-> rest.valid,
           value |-> ";" \o attrs[1].Key \o "=" \o QuotedString(attrs[1].Val)
                       \o rest.value]

\* signer.go:440-473: the values of the loop, or an error.
RECURSIVE FormatPreloads(_)
FormatPreloads(preloads) ==
  IF Len(preloads) = 0 THEN [err |-> FALSE, values |-> <<>>]
  ELSE IF ~UrlParses(preloads[1].Url) \/ preloads[1].As = ""
    THEN [err |-> TRUE, values |-> <<>>]
  ELSE LET rest == FormatPreloads(Tail(preloads))
           attrs == FormatAttributes(preloads[1].Attributes)
           value == "<" \o EscapedUrl(preloads[1].Url) \o ">;rel=preload;as="
                      \o preloads[1].As \o attrs.value
       IN IF rest.err THEN rest
          ELSE [err |-> FALSE,
                values |-> IF attrs.valid THEN <<value>> \o rest.values
                           ELSE rest.values]

formatLinkHeader(preloads) ==
  IF FormatPreloads(preloads).err THEN [err |-> TRUE, value |-> ""]
  ELSE [err |-> FALSE, value |-> Join(FormatPreloads(preloads).values, ",")]

\* metadata.Preloads values returned by the transformer.
PreloadLists ==
  { <<>>,
    << [Url |-> "https://a.example/x.js?v=1 2", As |-> "script",
        Attributes |-> << [Key |-> "crossorigin", Val |-> "anonymous"] >>] >>,
    << [Url |-> "https://a.example/x.js", As |-> "script",
        Attributes |-> << [Key |-> "media", Val |-> "line\nbreak"] >>] >>,
    << [Url |-> "https://a.example/%gh", As |-> "script", Attributes |-> <<>>] >>,
    << [Url |-> "https://a.example/x.js", As |-> "", Attributes |-> <<>>] >> }

(***************************************************************************)
(* MutateFetchedContentSecurityPolicy, signer.go:221-260.                   *)
(***************************************************************************)
\* A Content-Security-Policy is read as the sequence of its lexemes: a ";",
\* a white space character, or a run of other characters.
IsSpace(x) == x \in {" ", "\t"}

\* The lexemes of the header values of the upstream responses.
Lexemes(fetched) ==
  IF fetched = PublisherCsp
    THEN << "script-src", " ", "'self'", ";", " ", "font-src", " ",
            "https://f.example", ";", " ", "frame-ancestors", " ", "'none'" >>
    ELSE IF fetched = "" THEN <<>> ELSE << fetched >>

\* The string of a sequence of lexemes.
RECURSIVE CspText(_)
CspText(lex) ==
  IF Len(lex) = 0 THEN "" ELSE lex[1] \o CspText(Tail(lex))

\* strings.Split(s, sep): the pieces between the separators, at least one.
RECURSIVE SplitOn(_, _)
SplitOn(lex, sep) ==
  IF \A i \in 1..Len(lex) : lex[i] # sep THEN << lex >>
  ELSE LET i == CHOOSE i \in 1..Len(lex) :
                  lex[i] = sep /\ \A j \in 1..(i - 1) : lex[j] # sep
       IN << SubSeq(lex, 1, i - 1) >> \o SplitOn(SubSeq(lex, i + 1, Len(lex)), sep)

RECURSIVE TrimLeft(_)
TrimLeft(lex) ==
  IF Len(lex) > 0 /\ IsSpace(lex[1]) THEN TrimLeft(Tail(lex)) ELSE lex

RECURSIVE TrimRight(_)
TrimRight(lex) ==
  IF Len(lex) > 0 /\ IsSpace(lex[Len(lex)])
    THEN TrimRight(SubSeq(lex, 1, Len(lex) - 1))
    ELSE lex

\* strings.TrimSpace
TrimSpace(lex) == TrimRight(TrimLeft(lex))

\* strings.Fields: the runs between white space, as strings.
RECURSIVE Fields(_)
Fields(lex) ==
  LET t == TrimLeft(lex)
  IN IF Len(t) = 0 THEN <<>>
     ELSE LET n == IF \E i \in 1..Len(t) : IsSpace(t[i])
                     THEN CHOOSE i \in 1..Len(t) :
                            IsSpace(t[i]) /\ \A j \in 1..(i - 1) : ~IsSpace(t[j])
                     ELSE Len(t) + 1
          IN << CspText(SubSeq(t, 1, n - 1)) >> \o Fields(SubSeq(t, n, Len(t)))

\* strings.ToLower on the directive names of the inputs.
ToLower(word) ==
  CASE word = "FONT-SRC" -> "font-src"
    [] word = "Script-Src" -> "script-src"
    [] OTHER -> word

\* signer.go:222, 225: strings.Split(fetched, ";") and strings.TrimSpace of
\* each token.
DirectiveTokens(fetched) ==
  LET pieces == SplitOn(fetched, ";")
  IN [i \in 1..Len(pieces) |-> TrimSpace(pieces[i])]

\* signer.go:228-232: strings.ToLower of the first of strings.Fields(trimmed),
\* "" when there is no field.
DirectiveName(trimmed) ==
  IF Len(Fields(trimmed)) = 0 THEN "" ELSE ToLower(Fields(trimmed)[1])

\* The pass-through directives with script-src among them.
preservedDirectives_WithScriptSrc ==
  { "base-uri", "block-all-mixed-content", "font-src", "form-action",
    "manifest-src", "referrer", "upgrade-insecure-requests", "script-src" }

\* signer.go:235-236
preservedDirectives ==
  { "base-uri", "block-all-mixed-content", "font-src", "form-action",
    "manifest-src", "referrer", "upgrade-insecure-requests" }

\* signer.go:245-258
cspSuffix ==
  "default-src * blob: data:;"
    \o "report-uri https://csp.withgoogle.com/csp/amp;"
    \o "script-src blob: https://cdn.ampproject.org/rtv/ "
    \o "https://cdn.ampproject.org/v0.js "
    \o "https://cdn.ampproject.org/v0/ "
    \o "https://cdn.ampproject.org/lts/ "
    \o "https://cdn.ampproject.org/viewer/;"
    \o "style-src 'unsafe-inline' https://cdn.materialdesignicons.com "
    \o "https://cloud.typography.com https://fast.fonts.net "
    \o "https://fonts.googleapis.com https://maxcdn.bootstrapcdn.com "
    \o "https://p.typekit.net https://pro.fontawesome.com "
    \o "https://use.fontawesome.com https://use.typekit.net;"
    \o "object-src 'none'"

\* signer.go:245-258, in lexemes.
cspSuffixLexemes ==
  << "default-src", " ", "*", " ", "blob:", " ", "data:", ";",
     "report-uri", " ", "https://csp.withgoogle.com/csp/amp", ";",
     "script-src", " ", "blob:", " ", "https://cdn.ampproject.org/rtv/", " ",
     "https://cdn.ampproject.org/v0.js", " ",
     "https://cdn.ampproject.org/v0/", " ",
     "https://cdn.ampproject.org/lts/", " ",
     "https://cdn.ampproject.org/viewer/", ";",
     "style-src", " ", "'unsafe-inline'", " ",
     "https://cdn.materialdesignicons.com", " ",
     "https://cloud.typography.com", " ", "https://fast.fonts.net", " ",
     "https://fonts.googleapis.com", " ", "https://maxcdn.bootstrapcdn.com", " ",
     "https://p.typekit.net", " ", "https://pro.fontawesome.com", " ",
     "https://use.fontawesome.com", " ", "https://use.typekit.net", ";",
     "object-src", " ", "'none'" >>

\* signer.go:224-241: newCsp after the loop.
RECURSIVE PreservedCsp(_)
PreservedCsp(tokens) ==
  IF Len(tokens) = 0 THEN <<>>
  ELSE (IF DirectiveName(tokens[1]) \in preservedDirectives
          THEN tokens[1] \o << ";" >> ELSE <<>>)
         \o PreservedCsp(Tail(tokens))

\* signer.go:221-260 on the lexemes of fetched: the lexemes of the result.
MutateCsp(lex) == PreservedCsp(DirectiveTokens(lex)) \o cspSuffixLexemes

\* signer.go:221-260
MutateFetchedContentSecurityPolicy(fetched) ==
  CspText(PreservedCsp(DirectiveTokens(Lexemes(fetched)))) \o cspSuffix

(***************************************************************************)
(* Signer.serveSignedExchange, signer.go:545-680.                           *)
(***************************************************************************)
\* signer.go:548-555: transformer.Process fails, or returns the transformed
\* document.
Transform ==
  /\ pc = "transform"
  /\ \/ ProxyConsumedAndReturn /\ UNCHANGED transformedLen
     \/ /\ transformedLen' \in TransformedLengths
        /\ pc' = "link"
        /\ UNCHANGED << resp, fetchResp, metrics, outcome, bodyClosed, copyErr >>
  /\ LogIf("proxied", "transformer error")
  /\ UNCHANGED << body, linkHeader, maxAgeSecs, exchange, passed, mutated >>
  /\ PackagerFrame

\* signer.go:558-563, on the metadata's preloads.
FormatLink ==
  /\ pc = "link"
  /\ \E preloads \in PreloadLists :
       IF formatLinkHeader(preloads).err
         THEN ProxyConsumedAndReturn /\ UNCHANGED linkHeader
         ELSE /\ linkHeader' = formatLinkHeader(preloads).value
              /\ pc' = "mutate"
              /\ UNCHANGED << resp, fetchResp, metrics, outcome, bodyClosed, copyErr >>
  /\ LogIf("proxied", "Link header error")
  /\ UNCHANGED << body, transformedLen, maxAgeSecs, exchange, passed, mutated >>
  /\ PackagerFrame

\* The removal with one name of the table missed.
RemoveStatefulHeaders_MissesOne(h) ==
  DelAll(h, statefulResponseHeaders \ {"SetProfile"})

\* signer.go:569-571
RemoveStatefulHeaders(h) == DelAll(h, statefulResponseHeaders)

\* signer.go:568-591, the mutations of the fetched response's header map.
MutatedHeader(h, link, length) ==
  LET h1 == RemoveStatefulHeaders(h)
      h2 == IF link # "" THEN HeaderSet(h1, "Link", link) ELSE HeaderDel(h1, "Link")
      h3 == HeaderSet(h2, "Content-Length", ToString(length))
      h4 == HeaderSet(h3, "X-Content-Type-Options", "nosniff")
  IN HeaderSet(h4, "Content-Security-Policy",
               MutateFetchedContentSecurityPolicy(
                 HeaderGet(h4, "Content-Security-Policy")))

MutateHeaders ==
  /\ pc = "mutate"
  /\ fetchResp' = [fetchResp EXCEPT
                     !.Header = MutatedHeader(@, linkHeader, transformedLen)]
  /\ mutated' = TRUE
  /\ pc' = "encode"
  /\ UNCHANGED << body, transformedLen, linkHeader, maxAgeSecs, exchange, resp,
                  metrics, bodyClosed, passed, outcome, copyErr, logged >>
  /\ PackagerFrame

\* signer.go:593-602: NewExchange takes the header map itself, not a copy;
\* MiEncodePayload fails, or sets Digest on it.
Encode ==
  /\ pc = "encode"
  /\ \/ /\ exchange' = [exchange EXCEPT !.built = TRUE,
                          !.status = fetchResp.StatusCode,
                          !.header = fetchResp.Header,
                          !.payloadLen = transformedLen]
        /\ ProxyConsumedAndReturn
     \/ /\ exchange' = [exchange EXCEPT !.built = TRUE,
                          !.status = fetchResp.StatusCode,
                          !.header = HeaderAdd(fetchResp.Header, "Digest",
                                               "mi-sha256-03="),
                          !.payloadLen = transformedLen,
                          !.miEncoded = TRUE]
        /\ fetchResp' = [fetchResp EXCEPT
                           !.Header = HeaderAdd(@, "Digest", "mi-sha256-03=")]
        /\ pc' = "certurl"
        /\ UNCHANGED << resp, metrics, outcome, bodyClosed, copyErr >>
  /\ LogIf("proxied", "Error MI-encoding")
  /\ UNCHANGED << body, transformedLen, linkHeader, maxAgeSecs, passed, mutated >>
  /\ PackagerFrame

\* signer.go:603-609: genCertURL fails or not.
CertURL ==
  /\ pc = "certurl"
  /\ \/ ProxyConsumedAndReturn
     \/ /\ pc' = "validity"
        /\ UNCHANGED << resp, fetchResp, metrics, outcome, bodyClosed, copyErr >>
  /\ LogIf("proxied", "Error building cert URL")
  /\ UNCHANGED << body, transformedLen, linkHeader, maxAgeSecs, exchange, passed,
                  mutated >>
  /\ PackagerFrame

\* signer.go:620-623
Duration(maxAge) == IF maxAge < SevenDays THEN maxAge ELSE SevenDays

\* The signature dated at the time of signing.
SignatureDate_NotBackdated(now) == now

\* signer.go:624
SignatureDate(now) == now - OneDay

\* signer.go:625
SignatureExpires(now, maxAge) == SignatureDate(now) + Duration(maxAge)

\* The expiry test with Before in place of !After.
PlacesExpiryInPast_Before(now, maxAge) == SignatureExpires(now, maxAge) < now

\* signer.go:626
PlacesExpiryInPast(now, maxAge) == ~(SignatureExpires(now, maxAge) > now)

\* signer.go:610-630: the validity href cannot be built, or the validity
\* window is computed from time.Now() and the metadata's MaxAgeSecs (read
\* here for the first time).
Validity ==
  /\ pc = "validity"
  /\ \/ /\ ProxyConsumedAndReturn
        /\ logged' = "Error building validity href"
        /\ UNCHANGED << maxAgeSecs, exchange >>
     \/ \E now \in NowValues, maxAge \in MaxAgeSecsValues :
          /\ maxAgeSecs' = maxAge
          /\ exchange' = [exchange EXCEPT !.now = now]
          /\ IF PlacesExpiryInPast(now, maxAge)
               THEN ProxyConsumedAndReturn
               ELSE /\ pc' = "sign"
                    /\ UNCHANGED << resp, fetchResp, metrics, outcome, bodyClosed,
                                    copyErr >>
          /\ LogIf("proxied", "computed max-age places expiry in the past")
  /\ UNCHANGED << body, transformedLen, linkHeader, passed, mutated >>
  /\ PackagerFrame

\* signer.go:631-646: AddSignatureHeader fails, or signs over date and expires.
Sign ==
  /\ pc = "sign"
  /\ \/ ProxyConsumedAndReturn /\ UNCHANGED exchange
     \/ /\ exchange' = [exchange EXCEPT
                          !.signed = TRUE,
                          !.date = SignatureDate(exchange.now),
                          !.expires = SignatureExpires(exchange.now, maxAgeSecs)]
        /\ pc' = "serialize"
        /\ UNCHANGED << resp, fetchResp, metrics, outcome, bodyClosed, copyErr >>
  /\ LogIf("proxied", "Error signing exchange")
  /\ UNCHANGED << body, transformedLen, linkHeader, maxAgeSecs, passed, mutated >>
  /\ PackagerFrame

\* signer.go:647-652: exchange.Write to the buffer fails or not.
Serialize ==
  /\ pc = "serialize"
  /\ \/ ProxyConsumedAndReturn /\ UNCHANGED exchange
     \/ /\ exchange' = [exchange EXCEPT !.serialized = TRUE]
        /\ pc' = "write"
        /\ UNCHANGED << resp, fetchResp, metrics, outcome, bodyClosed, copyErr >>
  /\ LogIf("proxied", "Error serializing exchange")
  /\ UNCHANGED << body, transformedLen, linkHeader, maxAgeSecs, passed, mutated >>
  /\ PackagerFrame

\* signer.go:657-672
OuterHeader(h, echo) ==
  LET h1 == IF echo # "" THEN HeaderSet(h, "AMP-Cache-Transform", echo) ELSE h
      h2 == HeaderSet(h1, "Content-Type", SxgContentType)
      h3 == HeaderSet(h2, "Cache-Control", "no-transform, max-age=0")
  IN HeaderSet(h3, "X-Content-Type-Options", "nosniff")

\* signer.go:678-679
ObserveSigned(m, size) ==
  [m EXCEPT !.sizes = Append(@, size), !.signed = @ + 1]

\* signer.go:657-680: the outer headers and the body; resp.Write fails (the
\* client is gone) or writes the serialized exchange.
WriteExchange ==
  /\ pc = "write"
  /\ LET r0 == [resp EXCEPT !.header = OuterHeader(@, act)]
     IN \/ /\ resp' = r0
           /\ Return("writefailed")
           /\ UNCHANGED metrics
        \/ /\ resp' = Write(r0, SxgBytes)
           /\ metrics' = ObserveSigned(metrics, body.hi)
           /\ Return("signed")
  /\ LogIf("writefailed", "Error writing response:")
  /\ UNCHANGED << fetchResp, body, transformedLen, linkHeader, maxAgeSecs,
                  exchange, passed, mutated, copyErr >>
  /\ PackagerFrame

Next ==
  \/ Admit
  \/ Fetch
  \/ HealthGate
  \/ Negotiate
  \/ StatusDispatch
  \/ ValidateFetch
  \/ StatefulCheck
  \/ VariantsCheck
  \/ ConsumeBody
  \/ Transform
  \/ FormatLink
  \/ MutateHeaders
  \/ Encode
  \/ CertURL
  \/ Validity
  \/ Sign
  \/ Serialize
  \/ WriteExchange

Spec == Init /\ [][Next]_vars

\* The requests whose every exit path is followed to its end: the plain
\* upstream responses of each status and body length, one with a stateful
\* header and one with a variants header.
FairOrigins ==
  { o \in Origins :
      o.Header \in { EmptyHeader,
                     [k \in {"Set-Cookie"} |-> <<"a">>],
                     [k \in {"Variants"} |-> <<"a">>] } }

FairInit ==
  /\ Init
  /\ origin \in FairOrigins
  /\ forwardedRequestHeaders = <<>>
  /\ request \in {PlainRequest, BareRequest} \cup FormRequests

\* The handler is straight-line code whose calls return: a request that can
\* take a step takes it.
FairSpec == FairInit /\ [][Next]_vars /\ WF_vars(Next)

(***************************************************************************)
(* Calls of the exported functions on their own.                            *)
(***************************************************************************)
\* GetJoined: header maps with Set-Cookie and X-Extra, each absent or with
\* 0..MaxValues values, and the names asked for.
GetJoinedValueLists ==
  UNION { [1..n -> HeaderValueStrings] : n \in 0..MaxValues }

GetJoinedHeaders ==
  UNION { [D -> GetJoinedValueLists] : D \in SUBSET {"Set-Cookie", "X-Extra"} }

GetJoinedNames ==
  { "Set-Cookie", "set-cookie", "SET-COOKIE", "X-Extra", "x-extra", "Absent" }

GetJoinedCalls ==
  { [fn |-> "GetJoined", arg |-> [h |-> h, name |-> n], result |-> "",
     done |-> FALSE] : h \in GetJoinedHeaders, n \in GetJoinedNames }

\* MutateFetchedContentSecurityPolicy: policies of up to MaxLexemes lexemes
\* (no two runs of other characters are adjacent: they would be one run),
\* and the publisher's policy of the upstream responses.
CspAlphabet ==
  { ";", " ", "font-src", "FONT-SRC", "Script-Src", "frame-ancestors",
    "upgrade-insecure-requests", "x" }

IsWord(x) == x # ";" /\ ~IsSpace(x)

CspInputs ==
  { Lexemes(PublisherCsp) }
    \cup { lex \in UNION { [1..n -> CspAlphabet] : n \in 0..MaxLexemes } :
             \A i \in 1..(Len(lex) - 1) : ~(IsWord(lex[i]) /\ IsWord(lex[i + 1])) }

CspCalls ==
  { [fn |-> "MutateFetchedContentSecurityPolicy", arg |-> lex, result |-> <<>>,
     done |-> FALSE] : lex \in CspInputs }

\* formatLinkHeader: up to MaxPreloads preloads, each with a URL that
\* parses (with or without a space in its query) or not, with or without
\* an as, and with attributes whose values can be quoted or not.
PreloadAttributes ==
  LET good == [Key |-> "crossorigin", Val |-> "anonymous"]
      bad == [Key |-> "media", Val |-> "line\nbreak"]
  IN { <<>>, << good >>, << bad >>, << good, bad >> }

Preloads ==
  [Url : { "https://a.example/x.js", "https://a.example/x.js?v=1 2",
           "https://a.example/%gh" },
   As : { "script", "" },
   Attributes : PreloadAttributes]

LinkCalls ==
  { [fn |-> "formatLinkHeader", arg |-> preloads, result |-> <<>>,
     done |-> FALSE] :
      preloads \in UNION { [1..n -> Preloads] : n \in 0..MaxPreloads } }

Calls == GetJoinedCalls \cup CspCalls \cup LinkCalls

\* No request is being served: a function is about to be called.
CallInit ==
  /\ pc = "call"
  /\ call \in Calls
  /\ request = PlainRequest
  /\ requireHeaders = FALSE
  /\ forwardedRequestHeaders = <<>>
  /\ origin = PlainOrigin
  /\ fetchReq = NoFetchReq
  /\ logged = ""
  /\ errorOnStatefulHeaders = FALSE
  /\ fetchResp = NoFetchResp
  /\ act = ""
  /\ body = Nil
  /\ transformedLen = 0
  /\ linkHeader = ""
  /\ maxAgeSecs = 0
  /\ exchange = NoExchange
  /\ resp = NewResponseWriter
  /\ metrics = [signed |-> 0, proxied |-> 0, sizes |-> <<>>]
  /\ bodyClosed = FALSE
  /\ passed = {}
  /\ fetchedHeader = EmptyHeader
  /\ mutated = FALSE
  /\ copyErr = FALSE
  /\ outcome = "none"

\* A call leaves the state of the request alone.
CallFrame ==
  UNCHANGED << pc, request, requireHeaders, forwardedRequestHeaders, fetchReq,
               logged, origin, errorOnStatefulHeaders, fetchResp, act, body,
               transformedLen, linkHeader, maxAgeSecs, exchange, resp, metrics,
               bodyClosed, passed, fetchedHeader, mutated, copyErr, outcome >>

\* signer.go:102-113, called.
CallGetJoined ==
  /\ pc = "call"
  /\ call.fn = "GetJoined" /\ ~call.done
  /\ call' = [call EXCEPT !.result = GetJoined(call.arg.h, call.arg.name),
                          !.done = TRUE]
  /\ CallFrame

\* signer.go:221-260, called.
CallMutateFetchedContentSecurityPolicy ==
  /\ pc = "call"
  /\ call.fn = "MutateFetchedContentSecurityPolicy" /\ ~call.done
  /\ call' = [call EXCEPT !.result = MutateCsp(call.arg), !.done = TRUE]
  /\ CallFrame

\* signer.go:438-475, called.
CallFormatLinkHeader ==
  /\ pc = "call"
  /\ call.fn = "formatLinkHeader" /\ ~call.done
  /\ call' = [call EXCEPT !.result = formatLinkHeader(call.arg), !.done = TRUE]
  /\ CallFrame

CallNext ==
  \/ CallGetJoined
  \/ CallMutateFetchedContentSecurityPolicy
  \/ CallFormatLinkHeader

CallSpec == CallInit /\ [][CallNext]_vars

(***************************************************************************)
(* Properties.                                                              *)
(***************************************************************************)
CanonicalStatefulHeaders == { CanonicalHeaderKey(n) : n \in statefulResponseHeaders }

\* C1: once serveSignedExchange has built the exchange, the inner response
\* header map it holds has none of the 13 stateful response headers, whatever
\* the upstream sent and whatever errorOnStatefulHeaders is.
C1_NoStatefulInnerHeader ==
  exchange.built => DOMAIN exchange.header \cap CanonicalStatefulHeaders = {}

\* C1 witness: a request served as a signed exchange although the upstream
\* response carried a stateful header.
C1_Witness ==
  /\ outcome = "signed"
  /\ exchange.serialized
  /\ DOMAIN fetchedHeader \cap CanonicalStatefulHeaders # {}

\* C2: every serialized exchange has date = now - 24h, expires - date <= 7 days
\* and expires > now; and a maxAgeSecs of at most one day, which puts expires
\* at or before now, never yields a signature.
C2_ValidityWindow ==
  /\ exchange.serialized =>
       /\ exchange.date = exchange.now - OneDay
       /\ exchange.expires - exchange.date <= SevenDays
       /\ exchange.expires > exchange.now
  /\ maxAgeSecs <= OneDay =>
       /\ ~exchange.signed
       /\ outcome \notin {"signed", "writefailed"}

\* C2 witness: a signed exchange served for a max-age above seven days, its
\* validity capped at seven days.
C2_Witness ==
  /\ outcome = "signed"
  /\ maxAgeSecs > SevenDays
  /\ exchange.expires - exchange.date = SevenDays

\* C3: a proxy fallback is only taken before serveSignedExchange has mutated
\* the fetched response's headers; after the first mutation no failure falls
\* back to the proxy path.
C3_NoProxyAfterMutation ==
  outcome = "proxied" => ~mutated

\* C4: a response written by a proxy fallback has the upstream status and every
\* upstream header with its values as they were when the fetch returned.
C4_ProxyIsVerbatim ==
  outcome = "proxied" =>
    /\ resp.status = origin.StatusCode
    /\ \A k \in DOMAIN fetchedHeader :
         k \in DOMAIN resp.sent /\ resp.sent[k] = fetchedHeader[k]

\* C5: every response whose headers were sent to the client has a Vary header
\* with the value "Accept, AMP-Cache-Transform" among its values.
C5_VaryAlways ==
  (pc = "done" /\ resp.wroteHeader) =>
    /\ "Vary" \in DOMAIN resp.sent
    /\ \E i \in 1..Len(resp.sent["Vary"]) : resp.sent["Vary"][i] = varyValue

CanonicalNotModifiedHeaders ==
  { CanonicalHeaderKey(n) : n \in statusNotModifiedHeaders }

\* The upstream header k reached the client: the client was sent k with the
\* upstream's values (as they are, or joined on comma).
ReachesClient(k) ==
  /\ k \in DOMAIN fetchedHeader
  /\ k \in DOMAIN resp.sent
  /\ Join(resp.sent[k], ", ") = Join(fetchedHeader[k], ", ")

RECURSIVE InOrderUpTo(_, _)
InOrderUpTo(segments, next) ==
  IF Len(segments) = 0 THEN next
  ELSE IF segments[1].kind = "upstream" /\ segments[1].lo = next
    THEN InOrderUpTo(Tail(segments), segments[1].hi + 1)
    ELSE -1

PolicyChecks ==
  { "health", "negotiation", "status", "validation", "stateful", "variants" }

\* C8: the checks pass in the order health, negotiation, status, validation,
\* stateful, variants, size, each only after all the earlier ones; the body is
\* read into memory and the fetched headers are mutated only after the first
\* six have passed, on a 200 without a variants header and, when
\* errorOnStatefulHeaders is set, without a non-empty stateful header.
C8_FixedOrder ==
  /\ "negotiation" \in passed => "health" \in passed
  /\ "status" \in passed => "negotiation" \in passed
  /\ "validation" \in passed => "status" \in passed
  /\ "stateful" \in passed => "validation" \in passed
  /\ "variants" \in passed => "stateful" \in passed
  /\ "size" \in passed => "variants" \in passed
  /\ (body # Nil \/ mutated \/ fetchResp.Header # fetchedHeader) =>
       /\ PolicyChecks \subseteq passed
       /\ origin.StatusCode = 200
       /\ \A n \in variantsHeaders :
            n \notin DOMAIN fetchedHeader \/ fetchedHeader[n][1] = ""
       /\ errorOnStatefulHeaders =>
            \A k \in DOMAIN fetchedHeader \cap CanonicalStatefulHeaders :
              IF k = "Set-Cookie" THEN fetchedHeader[k][1] = ""
              ELSE Join(fetchedHeader[k], ", ") = ""

\* C8 witness: the headers were mutated, after all the checks had passed.
C8_Witness ==
  /\ mutated
  /\ fetchResp.Header # fetchedHeader
  /\ PolicyChecks \cup {"size"} \subseteq passed

\* C9: an exchange is built or served only for an upstream 200; a request
\* whose upstream status is neither 200 nor 304 ends as an unsigned proxy
\* with that status.
C9_SignedOnlyOn200 ==
  /\ (exchange.built \/ outcome \in {"signed", "writefailed"}) =>
       origin.StatusCode = 200
  /\ (pc = "done" /\ fetchResp # NoFetchResp /\ origin.StatusCode \notin {200, 304}) =>
       /\ outcome = "proxied"
       /\ resp.wroteHeader
       /\ resp.status = origin.StatusCode
       /\ \A i \in 1..Len(resp.body) : resp.body[i] # SxgBytes

\* C9 witness: a 302 that passed the health gate and negotiation and was
\* proxied by the status switch.
C9_Witness ==
  /\ pc = "done"
  /\ origin.StatusCode = 302
  /\ "negotiation" \in passed
  /\ outcome = "proxied"
  /\ resp.status = 302

\* C10: a request that is past the health gate without having passed it has
\* ended as an unsigned proxy of the upstream response: upstream status, no
\* body read into memory, no exchange built.
C10_HealthGate ==
  (fetchResp # NoFetchResp /\ pc # "health" /\ "health" \notin passed) =>
    /\ pc = "done"
    /\ outcome = "proxied"
    /\ resp.status = origin.StatusCode
    /\ body = Nil
    /\ ~exchange.built
    /\ \A i \in 1..Len(resp.body) : resp.body[i] # SxgBytes

\* C10 witness: an unhealthy server proxying an upstream 304.
C10_Witness ==
  /\ pc = "done"
  /\ "health" \notin passed
  /\ origin.StatusCode = 304
  /\ outcome = "proxied"
  /\ resp.status = 304


\* The log lines of the two header tests of the negotiation.
TransformRefusal == "AMP-Cache-Transform request header is invalid"
AcceptRefusal == "Accept request header lacks application/signed-exchange"

\* The inbound headers ask for a signed exchange in a form the gateway takes.
HeadersAdmitSxg ==
  /\ ShouldSendSXG(GetJoined(request.Header, "AMP-Cache-Transform")) # ""
  /\ CanSatisfy(GetJoined(request.Header, "Accept"))

\* C11: with requireHeaders, a request gets past the negotiation (and so can
\* be signed) only if its AMP-Cache-Transform names an acceptable transform
\* and its Accept admits the signed exchange, and is proxied unsigned
\* otherwise; without requireHeaders no request is proxied on account of
\* either header: a request stopped at the negotiation was stopped by
\* SelectVersion.
C11_Negotiation ==
  /\ (requireHeaders /\ ("negotiation" \in passed \/ outcome = "signed"))
       => HeadersAdmitSxg
  /\ (requireHeaders /\ "health" \in passed /\ pc # "negotiate"
        /\ ~HeadersAdmitSxg)
       => /\ outcome = "proxied"
          /\ logged \in {TransformRefusal, AcceptRefusal}
          /\ metrics.signed = 0
          /\ ~exchange.built
  /\ ~requireHeaders => logged \notin {TransformRefusal, AcceptRefusal}
  /\ (~requireHeaders /\ "health" \in passed /\ pc # "negotiate"
        /\ "negotiation" \notin passed)
       => logged = "internal SelectVersion error"

\* C11 witness: under requireHeaders a request with both headers is signed.
C11_Witness ==
  /\ requireHeaders
  /\ outcome = "signed"
  /\ act # ""

\* C12: with errorOnStatefulHeaders, an upstream 200 that carries a stateful
\* header, whatever its value, is proxied unsigned and unchanged by the
\* stateful check and never packaged.
C12_StatefulRefused ==
  (/\ errorOnStatefulHeaders
   /\ "validation" \in passed
   /\ pc # "stateful"
   /\ DOMAIN fetchedHeader \cap CanonicalStatefulHeaders # {})
    => /\ outcome = "proxied"
       /\ logged = "fetch response contains stateful header"
       /\ ~mutated
       /\ ~exchange.built

\* C13: an upstream 200 that carries one of the variants headers is proxied
\* unsigned by the variants check with these headers as upstream sent them,
\* and never packaged.
C13_VariantsRefused ==
  (/\ "stateful" \in passed
   /\ pc # "variants"
   /\ DOMAIN fetchedHeader \cap variantsHeaders # {})
    => /\ outcome = "proxied"
       /\ logged = "response contains a Variants header"
       /\ \A k \in DOMAIN fetchedHeader \cap variantsHeaders :
            k \in DOMAIN resp.sent /\ resp.sent[k] = fetchedHeader[k]
       /\ ~exchange.built

\* C14: a request with sign in the path and more than one fetch form value
\* is refused with 400.
C14_PathSignFetchCount ==
  (request.inPathSignURL /\ request.nFetch > 1 /\ pc # "start")
    => outcome = "error" /\ resp.status = 400

\* The log lines of the requests refused at admission.
AdmissionErrors ==
  { "Form input parsing failed: ", "More than 1 fetch param",
    "Not exactly 1 sign param", "parseURLs" }

\* C15: without sign in the path, a request with more than one fetch value
\* or a number of sign values other than one is answered 400; and a request
\* refused at admission (form parsing, parameter count, parseURLs) gets its
\* error response and nothing else: no fetch was issued, nothing was proxied,
\* packaged or counted.
C15_Admission ==
  /\ (~request.inPathSignURL /\ (request.nFetch > 1 \/ request.nSign # 1)
        /\ pc # "start")
       => /\ pc = "done" /\ outcome = "error"
          /\ resp.status = 400
          /\ logged \in AdmissionErrors
  /\ logged \in AdmissionErrors
       => /\ pc = "done" /\ outcome = "error"
          /\ resp.status \in {400, 404}
          /\ resp.body = <<ErrorBytes>>
          /\ fetchReq = NoFetchReq
          /\ fetchResp = NoFetchResp
          /\ body = Nil
          /\ ~exchange.built
          /\ metrics = [signed |-> 0, proxied |-> 0, sizes |-> <<>>]

\* C15 witness: no sign value at all, refused with 400.
C15_Witness ==
  /\ ~request.inPathSignURL /\ request.nSign = 0 /\ ~request.parseFormErr
  /\ pc = "done"
  /\ resp.status = 400
  /\ logged = "Not exactly 1 sign param"

\* C16: the request sent upstream is a GET with the fixed User-Agent and
\* without any hop-by-hop header.
C16_OutboundRequest ==
  fetchReq # NoFetchReq
    => /\ fetchReq.Method = "GET"
       /\ HeaderGet(fetchReq.Header, "User-Agent") = userAgent
       /\ DOMAIN fetchReq.Header \cap HopByHopHeaders = {}

\* C17: a response proxied because the transformer failed or the Link header
\* could not be formatted is the upstream response: its status, its headers
\* with their values as fetched and no other header but Vary, and the body
\* as read from upstream.
C17_PreMutationProxy ==
  logged \in {"transformer error", "Link header error"}
    => /\ outcome = "proxied"
       /\ ~mutated
       /\ ~exchange.built
       /\ resp.status = origin.StatusCode
       /\ DOMAIN resp.sent = DOMAIN fetchedHeader \cup {"Vary"}
       /\ \A k \in DOMAIN fetchedHeader : resp.sent[k] = fetchedHeader[k]
       /\ fetchResp.Header = fetchedHeader
       /\ resp.body = IF origin.bodyLen = 0 THEN <<>>
                      ELSE <<UpstreamBytes(1, origin.bodyLen)>>

\* C17 witness: the Link header cannot be formatted after the transformer
\* returned a body of another length, and the upstream body is proxied.
C17_Witness ==
  /\ logged = "Link header error"
  /\ outcome = "proxied"
  /\ transformedLen # origin.bodyLen
  /\ origin.bodyLen > 0
  /\ DOMAIN fetchedHeader # {}

\* The log line of a packaging given up for its validity window.
ExpiryRefusal == "computed max-age places expiry in the past"

\* The validity window of the request has been computed.
WindowComputed == exchange.now # 0

\* C18 as stated: with a max-age of 3600 seconds the packaging is not given
\* up for the expiry, and a signed exchange has expires - date = 3600.
C18_HappySignAsStated ==
  (WindowComputed /\ maxAgeSecs = 3600)
    => /\ logged # ExpiryRefusal
       /\ outcome = "signed" => exchange.expires - exchange.date = 3600

\* C18: a signed response is a 200 of type application/signed-exchange whose
\* signature has expires - date = min(max-age, 7 days), and its max-age is
\* above one day; with a max-age of 3600 seconds the computed expiry is in
\* the past and the response is proxied unsigned.
C18_HappySign ==
  /\ outcome = "signed"
       => /\ resp.status = 200
          /\ resp.sent["Content-Type"] = <<SxgContentType>>
          /\ resp.body = <<SxgBytes>>
          /\ maxAgeSecs > OneDay
          /\ exchange.expires - exchange.date = Min(maxAgeSecs, SevenDays)
  /\ (WindowComputed /\ maxAgeSecs = 3600)
       => /\ outcome = "proxied"
          /\ logged = ExpiryRefusal
          /\ ~exchange.signed

\* C18 witness: the plain request and a plain upstream 200 with a max-age of
\* one day and a second, signed with a window of that length.
C18_Witness ==
  /\ request = PlainRequest /\ requireHeaders
  /\ origin.StatusCode = 200 /\ origin.bodyLen = 1024
  /\ outcome = "signed"
  /\ maxAgeSecs = OneDay + 1
  /\ exchange.expires - exchange.date = OneDay + 1

\* C19: the signed counter is 1 if the serialized exchange was written to
\* the client and 0 otherwise, the proxied counter is 1 if a proxy fallback
\* was taken and 0 otherwise, never both; the size summary has one
\* observation, the length of the upstream body, if the signed counter is 1
\* and none otherwise.
C19_Metrics ==
  /\ metrics.signed = (IF outcome = "signed" THEN 1 ELSE 0)
  /\ outcome = "signed" <=> (resp.body = <<SxgBytes>>)
  /\ metrics.proxied = (IF outcome = "proxied" THEN 1 ELSE 0)
  /\ metrics.signed + metrics.proxied <= 1
  /\ metrics.sizes = (IF metrics.signed = 1 THEN <<origin.bodyLen>> ELSE <<>>)

\* C19 witness: a request counted as signed, its size observed as the
\* upstream body's length and not the transformed body's.
C19_Witness ==
  /\ fetchResp # NoFetchResp
  /\ outcome = "signed"
  /\ metrics = [signed |-> 1, proxied |-> 0, sizes |-> <<1024>>]
  /\ transformedLen # 1024

\* The headers serveSignedExchange sets on the outer response.
OuterHeaderNames ==
  { "Content-Type", "Cache-Control", "X-Content-Type-Options",
    "Amp-Cache-Transform" }

\* The header k of the response sent comes from upstream: with its values as
\* fetched, or joined as the 304 branch copies it.
FromUpstream(k) ==
  /\ k \in DOMAIN fetchedHeader
  /\ resp.sent[k] \in { fetchedHeader[k], <<GetJoined(fetchedHeader, k)>> }

\* The outer headers of a signed response: the three fixed ones, and the
\* echo of the negotiated AMP-Cache-Transform exactly under requireHeaders.
SignedOuterHeaders ==
  outcome = "signed"
    => /\ resp.sent["Content-Type"] = <<SxgContentType>>
       /\ resp.sent["Cache-Control"] = <<"no-transform, max-age=0">>
       /\ resp.sent["X-Content-Type-Options"] = <<"nosniff">>
       /\ "Amp-Cache-Transform" \in DOMAIN resp.sent <=> requireHeaders
       /\ requireHeaders
            => /\ resp.sent["Amp-Cache-Transform"] = <<act>>
               /\ act = ShouldSendSXG(
                           GetJoined(request.Header, "AMP-Cache-Transform"))

\* C20: a signed response has the outer headers above; a response that ends
\* as a proxy fallback or a 304 has none of them set by the gateway: where it
\* has one, upstream sent it.
C20_OuterHeaders ==
  /\ SignedOuterHeaders
  /\ outcome \in {"proxied", "notmodified"}
       => \A k \in OuterHeaderNames \cap DOMAIN resp.sent : FromUpstream(k)

\* C24: once the fetch has returned a response its body reader is eventually
\* closed, whatever the exit path; it is closed only when the handler has
\* returned, and nothing is read from it afterwards.
C24_BodyClosed ==
  /\ [](fetchResp # NoFetchResp => <>bodyClosed)
  /\ [](bodyClosed => (pc = "done" /\ fetchResp # NoFetchResp))
  /\ [][bodyClosed => fetchResp' = fetchResp]_vars

\* C24 witness: the client went away before the exchange was written, and
\* the body reader is closed.
C24_Witness ==
  /\ outcome = "writefailed"
  /\ fetchResp # NoFetchResp
  /\ bodyClosed

\* C25: the status is written to the client at most once, and no error body
\* is written on a response that is a proxy fallback, a 304 or a signed
\* exchange.
C25_SingleResponse ==
  /\ resp.writeHeaderCalls <= 1
  /\ (\E i \in 1..Len(resp.body) : resp.body[i] = ErrorBytes)
       => /\ outcome = "error"
          /\ resp.body = <<ErrorBytes>>
          /\ resp.status \in {400, 404, 500, 502}

\* The key net/http stores a header of this name under.
StoredName(name) ==
  CASE name \in {"Set-Cookie", "set-cookie", "SET-COOKIE"} -> "Set-Cookie"
    [] name \in {"X-Extra", "x-extra"} -> "X-Extra"
    [] OTHER -> name

\* The values in order, a comma and a space between each two.
CommaJoined(values) ==
  LET f[i \in 0..Len(values)] ==
        IF i = 0 THEN ""
        ELSE IF i = 1 THEN values[1]
        ELSE f[i - 1] \o ", " \o values[i]
  IN f[Len(values)]

\* C21: GetJoined returns "" for a name the map does not hold, the first
\* value for Set-Cookie in any spelling when it has a value, and for any
\* other name all its values in order joined with a comma (and a space).
C21_GetJoined ==
  (call.fn = "GetJoined" /\ call.done)
    => LET h == call.arg.h
           key == StoredName(call.arg.name)
       IN /\ key \notin DOMAIN h => call.result = ""
          /\ (key \in DOMAIN h /\ key = "Set-Cookie" /\ Len(h[key]) >= 1)
               => call.result = h[key][1]
          /\ (key \in DOMAIN h /\ key # "Set-Cookie")
               => call.result = CommaJoined(h[key])

\* C21 witness: set-cookie asked for of a map with two Set-Cookie values and
\* two X-Extra values, the first Set-Cookie value returned.
C21_Witness ==
  /\ call.fn = "GetJoined" /\ call.done
  /\ call.arg.name = "set-cookie"
  /\ DOMAIN call.arg.h = {"Set-Cookie", "X-Extra"}
  /\ call.arg.h["Set-Cookie"] = <<"a", "b">>
  /\ call.arg.h["X-Extra"] = <<"a", "b">>
  /\ call.result = "a"

\* The directives of a policy: its pieces between ";" that hold more than
\* white space, each without the white space around it.
Directives(lex) ==
  LET pieces == SplitOn(lex, ";")
      trimmed == [i \in 1..Len(pieces) |-> TrimSpace(pieces[i])]
  IN SelectSeq(trimmed, LAMBDA d : Len(d) > 0)

\* The name of a directive, in lower case.
NameOf(directive) == ToLower(Fields(directive)[1])

passThroughDirectives ==
  { "base-uri", "block-all-mixed-content", "font-src", "form-action",
    "manifest-src", "referrer", "upgrade-insecure-requests" }

fixedDirectives ==
  { "default-src", "report-uri", "script-src", "style-src", "object-src" }

\* The directives one after the other, a ";" after each.
Terminated(directives) ==
  LET f[i \in 0..Len(directives)] ==
        IF i = 0 THEN <<>> ELSE f[i - 1] \o directives[i] \o << ";" >>
  IN f[Len(directives)]

\* C22: the result of MutateFetchedContentSecurityPolicy is the input's
\* directives with a pass-through name (in any case), as written and in
\* order, each followed by ";", then the constant suffix; it holds no
\* directive with another name than the seven pass-through and the five
\* fixed ones, and each fixed directive once, with the suffix's value.
C22_CspRewrite ==
  (call.fn = "MutateFetchedContentSecurityPolicy" /\ call.done)
    => LET kept == SelectSeq(Directives(call.arg),
                             LAMBDA d : NameOf(d) \in passThroughDirectives)
           out == Directives(call.result)
           fixed == Directives(cspSuffixLexemes)
       IN /\ call.result = Terminated(kept) \o cspSuffixLexemes
          /\ CspText(call.result) = CspText(Terminated(kept)) \o cspSuffix
          /\ \A i \in 1..Len(out) :
               NameOf(out[i]) \in passThroughDirectives \cup fixedDirectives
          /\ \A n \in fixedDirectives :
               /\ Cardinality({ i \in 1..Len(out) : NameOf(out[i]) = n }) = 1
               /\ \E i \in 1..Len(out), j \in 1..Len(fixed) :
                    NameOf(out[i]) = n /\ out[i] = fixed[j]

\* C22 witness: the publisher's policy with script-src, font-src and
\* frame-ancestors: font-src is kept, then the suffix.
C22_Witness ==
  /\ call.fn = "MutateFetchedContentSecurityPolicy" /\ call.done
  /\ call.arg = Lexemes(PublisherCsp)
  /\ CspText(call.result) = "font-src https://f.example;" \o cspSuffix

\* The preload fails the call: its URL does not parse or it has no as.
FailsCall(preload) ==
  preload.Url = "https://a.example/%gh" \/ preload.As = ""

\* Every attribute value of the preload can be written as a quoted-string.
Encodable(preload) ==
  \A i \in 1..Len(preload.Attributes) :
    preload.Attributes[i].Val # "line\nbreak"

\* The Link value of one preload: the URL with its query percent-escaped,
\* rel=preload, as, and the attributes with their values quoted.
LinkValue(preload) ==
  LET url == IF preload.Url = "https://a.example/x.js?v=1 2"
               THEN "https://a.example/x.js?v=1%202" ELSE preload.Url
      attrs == preload.Attributes
      f[i \in 0..Len(attrs)] ==
        IF i = 0 THEN ""
        ELSE f[i - 1] \o ";" \o attrs[i].Key \o "=\"" \o attrs[i].Val \o "\""
  IN "<" \o url \o ">;rel=preload;as=" \o preload.As \o f[Len(attrs)]

\* The strings in order, a comma between each two.
CommaSeparated(values) ==
  LET f[i \in 0..Len(values)] ==
        IF i = 0 THEN ""
        ELSE IF i = 1 THEN values[1]
        ELSE f[i - 1] \o "," \o values[i]
  IN f[Len(values)]

\* C23: formatLinkHeader fails, with no output, if one of the preloads has a
\* URL that does not parse or no as; otherwise it returns the Link values,
\* in order and separated by commas, of the preloads all of whose attribute
\* values can be quoted, the others being left out.
C23_FormatLinkHeader ==
  (call.fn = "formatLinkHeader" /\ call.done)
    => LET preloads == call.arg
           encodable == SelectSeq(preloads, Encodable)
       IN IF \E i \in 1..Len(preloads) : FailsCall(preloads[i])
            THEN call.result.err /\ call.result.value = ""
            ELSE /\ ~call.result.err
                 /\ call.result.value =
                      CommaSeparated([i \in 1..Len(encodable) |->
                                        LinkValue(encodable[i])])

\* C23 witness: a preload with an attribute that cannot be quoted, then one
\* with a space in its query: the second alone is in the result.
C23_Witness ==
  /\ call.fn = "formatLinkHeader" /\ call.done
  /\ Len(call.arg) = 2
  /\ ~Encodable(call.arg[1]) /\ ~FailsCall(call.arg[1])
  /\ ~call.result.err
  /\ call.result.value =
       "<https://a.example/x.js?v=1%202>;rel=preload;as=script;crossorigin=\"anonymous\""

====
